---- MODULE Spec2Model ----
(***************************************************************************)
(* CDN version updater (update_html_versions.py).                          *)
(*                                                                         *)
(* Text is a sequence of one-character strings.  The two regular           *)
(* expressions of the script are modelled by what a backtracking, greedy,  *)
(* leftmost matcher does with them; the driver (main) is a state machine   *)
(* over a small file system.                                               *)
(***************************************************************************)
EXTENDS Integers, Sequences, FiniteSets, TLC

VARIABLES
  \* increment_version called on its own
  version_string,      \* the argument
  inc_result,          \* the returned string
  inc_pc,              \* "idle" | "call" | "ret"
  \* update_cdn_versions applied run after run to its own output
  original,            \* the text before the first run
  content,             \* last run: the argument
  updated_content,     \* last run: returned text (the next run's argument)
  change_count,        \* last run: returned count
  version_changes,     \* last run: returned map, filename -> <<old, new>>
  runs,                \* number of runs applied so far
  \* the driver
  dir_exists,          \* html_dir.exists()
  fs0,                 \* path -> text of the file when the run starts
  fs,                  \* path -> text of the file now
  pc,                  \* "idle" | "start" | "find" | "loop" | "exit"
  html_files,          \* the sorted list main iterates over
  idx,                 \* index of the next file of html_files to process
  total_changes,
  files_modified,
  all_version_changes, \* run-wide summary, filename -> <<old, new>>
  exit_status,         \* -1 while running, else the process exit status
  reads,               \* path -> number of times opened for reading
  writes,              \* path -> number of times opened for writing
  results              \* per processed file, in order: what process_html_file did

incVars == <<version_string, inc_result, inc_pc>>
rewriteVars == <<original, content, updated_content, change_count, version_changes, runs>>
driverVars == <<dir_exists, fs0, fs, pc, html_files, idx, total_changes, files_modified,
                all_version_changes, exit_status, reads, writes, results>>
vars == <<incVars, rewriteVars, driverVars>>

---------------------------------------------------------------------------
(* Bounds of the model *)

\* longest argument handed to increment_version on its own
MaxVerLen == 6

\* most fragments a text handed to update_cdn_versions is put together from
MaxFrags == 2

\* most successive runs of update_cdn_versions on its own output
MaxRuns == 2

\* most .html files under the HTML directory
MaxFiles == 2

---------------------------------------------------------------------------
(* Characters and the character classes of Python's re *)

DigitChars == {"0", "1", "2", "3", "4", "5", "6", "7", "8", "9"}

Letters == {"a", "b", "c", "d", "e", "f", "g", "h", "i", "j", "k", "l", "m",
            "n", "o", "p", "q", "r", "s", "t", "u", "v", "w", "x", "y", "z"}

\* \d
IsDigit(c) == c \in DigitChars

\* [\w_.-]
IsNameChar(c) == c \in Letters \cup DigitChars \cup {"_", ".", "-"}

DigitVal(c) ==
  CASE c = "0" -> 0 [] c = "1" -> 1 [] c = "2" -> 2 [] c = "3" -> 3 [] c = "4" -> 4
    [] c = "5" -> 5 [] c = "6" -> 6 [] c = "7" -> 7 [] c = "8" -> 8 [] c = "9" -> 9

DigitOf(d) ==
  CASE d = 0 -> "0" [] d = 1 -> "1" [] d = 2 -> "2" [] d = 3 -> "3" [] d = 4 -> "4"
    [] d = 5 -> "5" [] d = 6 -> "6" [] d = 7 -> "7" [] d = 8 -> "8" [] d = 9 -> "9"

\* int(s) for a non-empty string of decimal digits (leading zeros allowed)
RECURSIVE IntOf(_)
IntOf(s) ==
  IF Len(s) = 0 THEN 0
  ELSE 10 * IntOf(SubSeq(s, 1, Len(s) - 1)) + DigitVal(s[Len(s)])

\* str(n) for n >= 0
RECURSIVE Decimal(_)
Decimal(n) ==
  IF n < 10 THEN <<DigitOf(n)>>
  ELSE Decimal(n \div 10) \o <<DigitOf(n % 10)>>

\* f"{n}": no zero fill
FormatPlain(n) == Decimal(n)

\* two digits, zero filled, cut to the last two
FormatCut(n) == <<DigitOf((n \div 10) % 10), DigitOf(n % 10)>>

\* f"{n:02d}" for n >= 0: at least two digits, zero filled, never cut
Format02d(n) ==
  LET d == Decimal(n) IN IF Len(d) < 2 THEN <<"0">> \o d ELSE d

Max(S) == CHOOSE x \in S : \A y \in S : y <= x

Min(S) == CHOOSE x \in S : \A y \in S : x <= y

\* the literal lit stands in s at position i
HasAt(s, i, lit) ==
  /\ i + Len(lit) - 1 <= Len(s)
  /\ \A k \in 1..Len(lit) : s[i + k - 1] = lit[k]

---------------------------------------------------------------------------
(* (\d+)\.(\d+)\.(\d+) at position i: each \d+ is greedy and gives digits   *)
(* back only when what follows it cannot match otherwise.                  *)

\* the positions right after a possible match of \d+ starting at i
DigitEnds(s, i) ==
  {e \in (i + 1)..(Len(s) + 1) : \A k \in i..(e - 1) : IsDigit(s[k])}

PatchEnds(s, i) == DigitEnds(s, i)

MinorEnds(s, i) ==
  {e \in DigitEnds(s, i) : HasAt(s, e, <<".">>) /\ PatchEnds(s, e + 1) # {}}

MajorEnds(s, i) ==
  {e \in DigitEnds(s, i) : HasAt(s, e, <<".">>) /\ MinorEnds(s, e + 1) # {}}

NoMatch == [ok |-> FALSE]

MatchTriple(s, i) ==
  IF MajorEnds(s, i) = {} THEN NoMatch
  ELSE LET e1 == Max(MajorEnds(s, i))
           e2 == Max(MinorEnds(s, e1 + 1))
           e3 == Max(PatchEnds(s, e2 + 1))
       IN [ok |-> TRUE,
           major |-> SubSeq(s, i, e1 - 1),
           minor |-> SubSeq(s, e1 + 1, e2 - 1),
           patch |-> SubSeq(s, e2 + 1, e3 - 1),
           end |-> e3]

---------------------------------------------------------------------------
(* increment_version *)

\* the patch kept to two digits: 99 stays 99
increment_version_capped(s) ==
  LET match == MatchTriple(s, 1) IN
  IF ~match.ok THEN s
  ELSE match.major \o <<".">> \o match.minor \o <<".">>
         \o Format02d(IF IntOf(match.patch) >= 99 THEN 99 ELSE IntOf(match.patch) + 1)

increment_version(s) ==
  LET match == MatchTriple(s, 1) IN
  IF ~match.ok THEN s
  ELSE match.major \o <<".">> \o match.minor \o <<".">>
         \o Format02d(IntOf(match.patch) + 1)

---------------------------------------------------------------------------
(* update_cdn_versions *)

\* CDN_URL_PATTERN with its escapes read: a literal
CDN_URL == <<"h", "t", "t", "p", "s", ":", "/", "/", "p", "u", "b", "-", "8", "5",
             "4", "4", "3", "b", "5", "8", "5", "f", "1", "e", "4", "4", "1", "1",
             "a", "b", "5", "c", "c", "9", "7", "6", "c", "4", "f", "b", "0", "8",
             "c", "a", ".", "r", "2", ".", "d", "e", "v", "/">>

QV == <<"?", "v", "=">>
DotJs == <<".", "j", "s">>
DotCss == <<".", "c", "s", "s">>

\* the positions right after a possible match of [\w_.-]+ starting at j
NameEnds(s, j) ==
  {e \in (j + 1)..(Len(s) + 1) : \A k \in j..(e - 1) : IsNameChar(s[k])}

\* the positions right after \.(?:js|css) matched at e, "js" tried first
ExtEnds(s, e) ==
  (IF HasAt(s, e, DotJs) THEN <<e + Len(DotJs)>> ELSE <<>>)
    \o (IF HasAt(s, e, DotCss) THEN <<e + Len(DotCss)>> ELSE <<>>)

\* VERSION_PATTERN at x
VersionAt(s, x) ==
  IF HasAt(s, x, QV) THEN MatchTriple(s, x + Len(QV)) ELSE NoMatch

\* the alternatives of ExtEnds(s, e), in order, after which the version matches
GoodExtEnds(s, e) == SelectSeq(ExtEnds(s, e), LAMBDA x : VersionAt(s, x).ok)

\* the compiled pattern tried at position i: the name takes as much as it can and
\* gives characters back until the rest matches
MatchPattern(s, i) ==
  IF ~HasAt(s, i, CDN_URL) THEN NoMatch
  ELSE LET j == i + Len(CDN_URL)
           good == {e \in NameEnds(s, j) : GoodExtEnds(s, e) # <<>>}
       IN IF good = {} THEN NoMatch
          ELSE LET e == Max(good)
                   x == Head(GoodExtEnds(s, e))
                   v == VersionAt(s, x)
               IN [ok |-> TRUE,
                   url_base |-> SubSeq(s, i, x - 1),
                   major |-> v.major,
                   minor |-> v.minor,
                   patch |-> v.patch,
                   end |-> v.end]

\* url_base.split('/')[-1]
LastSegment(u) ==
  LET slashes == {k \in 1..Len(u) : u[k] = "/"} IN
  IF slashes = {} THEN u ELSE SubSeq(u, Max(slashes) + 1, Len(u))

\* replace_version with version_changes.setdefault(...): the first entry stays
replace_version_first(match, acc) ==
  LET old_version == match.major \o <<".">> \o match.minor \o <<".">> \o match.patch
      new_version == increment_version(old_version)
      filename == LastSegment(match.url_base)
  IN [text |-> match.url_base \o QV \o new_version,
      change_count |-> acc.change_count + 1,
      version_changes |-> acc.version_changes @@ (filename :> <<old_version, new_version>>)]

\* replace_version: the replacement text, and the closure's state after the call
replace_version(match, acc) ==
  LET old_version == match.major \o <<".">> \o match.minor \o <<".">> \o match.patch
      new_version == increment_version(old_version)
      filename == LastSegment(match.url_base)
  IN [text |-> match.url_base \o QV \o new_version,
      change_count |-> acc.change_count + 1,
      version_changes |-> (filename :> <<old_version, new_version>>) @@ acc.version_changes]

\* the leftmost match starting at pos or later, with its start
FirstMatchFrom(s, pos) ==
  LET starts == {p \in pos..Len(s) : MatchPattern(s, p).ok} IN
  IF starts = {} THEN NoMatch
  ELSE [start |-> Min(starts)] @@ MatchPattern(s, Min(starts))

\* the result so far with the text before a match and the replacement r added
Emit(acc, before, r) ==
  [updated_content |-> acc.updated_content \o before \o r.text,
   change_count |-> r.change_count,
   version_changes |-> r.version_changes]

\* pattern.sub(replace_version, content, count=1): only the first match is replaced
SubOnce(s, pos, acc, match) ==
  IF ~match.ok
  THEN [acc EXCEPT !.updated_content = @ \o SubSeq(s, pos, Len(s))]
  ELSE [Emit(acc, SubSeq(s, pos, match.start - 1), replace_version(match, acc))
          EXCEPT !.updated_content = @ \o SubSeq(s, match.end, Len(s))]

\* pattern.sub(replace_version, content) from position pos on, match being the
\* leftmost match from there: it is replaced, the text before it copied, and the
\* search resumed right after it
RECURSIVE Sub(_, _, _, _)
Sub(s, pos, acc, match) ==
  IF ~match.ok
  THEN [acc EXCEPT !.updated_content = @ \o SubSeq(s, pos, Len(s))]
  ELSE Sub(s, match.end,
           Emit(acc, SubSeq(s, pos, match.start - 1), replace_version(match, acc)),
           FirstMatchFrom(s, match.end))

update_cdn_versions(c) ==
  Sub(c, 1, [updated_content |-> <<>>, change_count |-> 0, version_changes |-> <<>>],
      FirstMatchFrom(c, 1))

---------------------------------------------------------------------------
(* increment_version on its own *)

IncAlphabet == {"0", "9", ".", "b"}

VersionInputs == UNION {[1..n -> IncAlphabet] : n \in 0..MaxVerLen}

IdleRewrite ==
  /\ original = <<>>
  /\ content = <<>>
  /\ updated_content = <<>>
  /\ change_count = 0
  /\ version_changes = <<>>
  /\ runs = 0

IdleDriver ==
  /\ dir_exists = FALSE
  /\ fs0 = <<>>
  /\ fs = <<>>
  /\ pc = "idle"
  /\ html_files = <<>>
  /\ idx = 1
  /\ total_changes = 0
  /\ files_modified = 0
  /\ all_version_changes = <<>>
  /\ exit_status = -1
  /\ reads = <<>>
  /\ writes = <<>>
  /\ results = <<>>

IdleInc ==
  /\ version_string = <<>>
  /\ inc_result = <<>>
  /\ inc_pc = "idle"

InitInc ==
  /\ version_string \in VersionInputs
  /\ inc_result = <<>>
  /\ inc_pc = "call"
  /\ IdleRewrite
  /\ IdleDriver

IncrementVersion ==
  /\ inc_pc = "call"
  /\ inc_result' = increment_version(version_string)
  /\ inc_pc' = "ret"
  /\ UNCHANGED <<version_string, rewriteVars, driverVars>>

NextInc == IncrementVersion

SpecInc == InitInc /\ [][NextInc]_vars

---------------------------------------------------------------------------
(* What is claimed of increment_version, stated without the matcher *)

Dots(s) == {k \in 1..Len(s) : s[k] = "."}

AllDigits(s) == \A k \in 1..Len(s) : IsDigit(s[k])

\* s is exactly MAJOR.MINOR.PATCH: two dots, three non-empty groups of digits
IsTriple(s) ==
  /\ Cardinality(Dots(s)) = 2
  /\ \A k \in 1..Len(s) : k \in Dots(s) \/ IsDigit(s[k])
  /\ LET d1 == Min(Dots(s))
         d2 == Max(Dots(s))
     IN 1 < d1 /\ d1 + 1 < d2 /\ d2 < Len(s)

\* C1: for a version string MAJOR.MINOR.PATCH, increment_version returns MAJOR and
\* MINOR verbatim (leading zeros kept) followed by the decimal of int(PATCH)+1,
\* zero filled to at least two digits and never cut.
C1_IncrementTriple ==
  (inc_pc = "ret" /\ IsTriple(version_string)) =>
    LET d2 == Max(Dots(version_string))
        patch == SubSeq(version_string, d2 + 1, Len(version_string))
        new_patch == SubSeq(inc_result, d2 + 1, Len(inc_result))
    IN /\ SubSeq(inc_result, 1, d2) = SubSeq(version_string, 1, d2)
       /\ Len(new_patch) >= 2
       /\ AllDigits(new_patch)
       /\ IntOf(new_patch) = IntOf(patch) + 1
       /\ Len(new_patch) > 2 => new_patch[1] # "0"

\* "00.0.9" has become "00.0.10": major kept with its leading zero, 9 -> 10
C1_Witness ==
  /\ inc_pc = "ret"
  /\ version_string = <<"0", "0", ".", "0", ".", "9">>
  /\ inc_result = <<"0", "0", ".", "0", ".", "1", "0">>

\* C2: a string that is not exactly a MAJOR.MINOR.PATCH triple is returned unchanged.
C2_NonTripleUnchanged ==
  (inc_pc = "ret" /\ ~IsTriple(version_string)) => inc_result = version_string

---------------------------------------------------------------------------
(* update_cdn_versions run after run on its own output *)

\* Pieces a text is put together from.  Whether and where a text holds an asset
\* reference is decided by the matcher alone: pieces meet to form references
\* ("...?v=1.2" then ".4") as well as carrying them whole.
RefA27 == CDN_URL \o <<"a", ".", "j", "s">> \o QV \o <<"1", ".", "1", ".", "2", "7">>
RefA9 == CDN_URL \o <<"a", ".", "j", "s">> \o QV \o <<"1", ".", "1", ".", "9">>
RefB99 == CDN_URL \o <<"b", ".", "c", "s", "s">> \o QV \o <<"2", ".", "0", ".", "9", "9">>
RefZeros == CDN_URL \o <<"c", "-", "d", ".", "m", "i", "n", ".", "j", "s">> \o QV
              \o <<"0", "1", ".", "0", "2", ".", "0", "0", "7">>
RefTwoPart == CDN_URL \o <<"a", ".", "j", "s">> \o QV \o <<"1", ".", "2">>
RefSubdir == CDN_URL \o <<"x", "/", "a", ".", "j", "s">> \o QV \o <<"1", ".", "2", ".", "3">>
RefNoName == CDN_URL \o <<".", "j", "s">> \o QV \o <<"1", ".", "2", ".", "3">>
RefNoHost == <<"a", ".", "j", "s">> \o QV \o <<"1", ".", "2", ".", "3">>
TextDot4 == <<".", "4">>
TextTag == <<"<", "p", ">">>

Fragments == {RefA27, RefA9, RefB99, RefZeros, RefTwoPart, RefSubdir, RefNoName,
              RefNoHost, TextDot4, TextTag}

RECURSIVE Concat(_)
Concat(ss) == IF ss = <<>> THEN <<>> ELSE Head(ss) \o Concat(Tail(ss))

Contents == {Concat(fr) : fr \in UNION {[1..n -> Fragments] : n \in 0..MaxFrags}}

InitRewrite ==
  /\ original \in Contents
  /\ content = original
  /\ updated_content = original
  /\ change_count = 0
  /\ version_changes = <<>>
  /\ runs = 0
  /\ IdleInc
  /\ IdleDriver

\* one more run: the text the last run returned is this run's argument
UpdateCdnVersions ==
  /\ runs < MaxRuns
  /\ \E r \in {update_cdn_versions(updated_content)} :
       /\ content' = updated_content
       /\ updated_content' = r.updated_content
       /\ change_count' = r.change_count
       /\ version_changes' = r.version_changes
  /\ runs' = runs + 1
  /\ UNCHANGED <<original, incVars, driverVars>>

NextRewrite == UpdateCdnVersions

SpecRewrite == InitRewrite /\ [][NextRewrite]_vars

---------------------------------------------------------------------------
(* Qualifying occurrences, stated without the matcher: the host prefix, a    *)
(* maximal run of name characters that ends in .js or .css after at least    *)
(* one character, ?v=, and three maximal runs of digits joined by dots.      *)

\* the first position from k on whose character is not a name character
NameRunEnd(s, k) == Min({p \in k..Len(s) : ~IsNameChar(s[p])} \cup {Len(s) + 1})

\* the first position from k on whose character is not a digit
DigitRunEnd(s, k) == Min({p \in k..Len(s) : ~IsDigit(s[p])} \cup {Len(s) + 1})

EndsWith(s, suffix) ==
  Len(s) >= Len(suffix) /\ SubSeq(s, Len(s) - Len(suffix) + 1, Len(s)) = suffix

OccAt(s, i) ==
  LET j == i + Len(CDN_URL)
      x == NameRunEnd(s, j)
      name == SubSeq(s, j, x - 1)
      a == x + Len(QV)
      e1 == DigitRunEnd(s, a)
      e2 == DigitRunEnd(s, e1 + 1)
      e3 == DigitRunEnd(s, e2 + 1)
  IN [ok |-> /\ HasAt(s, i, CDN_URL)
             /\ \/ EndsWith(name, DotJs) /\ Len(name) > Len(DotJs)
                \/ EndsWith(name, DotCss) /\ Len(name) > Len(DotCss)
             /\ HasAt(s, x, QV)
             /\ a < e1 /\ HasAt(s, e1, <<".">>)
             /\ e1 + 1 < e2 /\ HasAt(s, e2, <<".">>)
             /\ e2 + 1 < e3,
      start |-> i,
      filename |-> name,
      version_start |-> a,
      patch_start |-> e2 + 1,
      end |-> e3]

OccStarts(s) == {i \in 1..Len(s) : HasAt(s, i, CDN_URL) /\ OccAt(s, i).ok}

\* the occurrences of s from left to right
RECURSIVE OccSeq(_, _)
OccSeq(s, from) ==
  LET later == {i \in OccStarts(s) : i >= from} IN
  IF later = {} THEN <<>>
  ELSE <<OccAt(s, Min(later))>> \o OccSeq(s, Min(later) + 1)

Occs(s) == OccSeq(s, 1)

OccVersion(s, o) == SubSeq(s, o.version_start, o.end - 1)
OccPatch(s, o) == SubSeq(s, o.patch_start, o.end - 1)
\* host prefix, filename, ?v=, MAJOR. and MINOR. of the occurrence
OccHead(s, o) == SubSeq(s, o.start, o.patch_start - 1)

\* the text after occurrence k (from the start, for k = 0) up to the next one
Gap(s, os, k) ==
  SubSeq(s, IF k = 0 THEN 1 ELSE os[k].end,
            IF k = Len(os) THEN Len(s) ELSE os[k + 1].start - 1)

\* C3: every qualifying occurrence is rewritten, and nothing but its patch changes:
\* the occurrences of the result line up one to one with those of the argument, with
\* the same host prefix, filename, ?v=, MAJOR and MINOR and the same text between
\* them; with no occurrence the text comes back as it went in.
C3_OnlyPatchesChange ==
  runs >= 1 =>
    LET a == Occs(content)
        b == Occs(updated_content)
    IN /\ Len(b) = Len(a)
       /\ \A k \in 0..Len(a) : Gap(updated_content, b, k) = Gap(content, a, k)
       /\ \A k \in 1..Len(a) :
            /\ OccHead(updated_content, b[k]) = OccHead(content, a[k])
            /\ IntOf(OccPatch(updated_content, b[k])) = IntOf(OccPatch(content, a[k])) + 1
       /\ Len(a) = 0 => updated_content = content

\* a text with two occurrences has been rewritten, the second as well as the first
C3_Witness ==
  /\ runs = 1
  /\ content = RefB99 \o RefA9
  /\ updated_content =
       CDN_URL \o <<"b", ".", "c", "s", "s">> \o QV \o <<"2", ".", "0", ".", "1", "0", "0">>
         \o CDN_URL \o <<"a", ".", "j", "s">> \o QV \o <<"1", ".", "1", ".", "1", "0">>

\* C4: changeCount is the number of qualifying occurrences, repeats counted; the map
\* has one entry per distinct filename, holding the (old, new) pair of the last
\* occurrence of that filename.
C4_CountAndLastWins ==
  runs >= 1 =>
    LET a == Occs(content)
        b == Occs(updated_content)
    IN /\ change_count = Len(a)
       /\ DOMAIN version_changes = {a[k].filename : k \in 1..Len(a)}
       /\ \A f \in DOMAIN version_changes :
            LET last == Max({k \in 1..Len(a) : a[k].filename = f}) IN
            version_changes[f] = <<OccVersion(content, a[last]),
                                   OccVersion(updated_content, b[last])>>

\* a.js occurs twice with different versions: counted twice, one entry, the later pair
C4_Witness ==
  /\ runs = 1
  /\ content = RefA27 \o RefA9
  /\ change_count = 2
  /\ DOMAIN version_changes = {<<"a", ".", "j", "s">>}
  /\ version_changes[<<"a", ".", "j", "s">>][1] = <<"1", ".", "1", ".", "9">>

\* C5: a run on a text with an occurrence always changes it; after k runs, each on
\* the previous run's result, every run has reported the original number of
\* occurrences and each occurrence has its original patch plus k, major and minor
\* (and all else) as they were.
C5_NeverIdempotent ==
  runs >= 1 =>
    LET o == Occs(original)
        a == Occs(content)
        b == Occs(updated_content)
    IN /\ Len(a) = Len(o) /\ Len(b) = Len(o)
       /\ change_count = Len(o)
       /\ Len(o) > 0 => updated_content # content
       /\ \A k \in 1..Len(o) :
            /\ OccHead(updated_content, b[k]) = OccHead(original, o[k])
            /\ IntOf(OccPatch(updated_content, b[k])) = IntOf(OccPatch(original, o[k])) + runs

\* every run up to the bound has been applied to a text with an occurrence whose
\* patch grows a digit (99 -> 100 -> 101)
C5_Witness ==
  /\ runs = MaxRuns
  /\ original = RefB99
  /\ change_count = 1
  /\ IntOf(OccPatch(updated_content, Occs(updated_content)[1])) = 99 + MaxRuns

---------------------------------------------------------------------------
(* The driver: process_html_file, find_html_files, main *)

\* The paths there may be in the project.  1..MaxFiles are *.html files under
\* html_dir, a smaller number sorting first; OtherPath is a file that is not one
\* (another suffix, or outside html_dir), holding an asset reference all the same.
HtmlPaths == 1..MaxFiles
OtherPath == 0
Paths == HtmlPaths \cup {OtherPath}

\* path matches base_dir.rglob('*.html')
IsHtml(p) == p \in HtmlPaths

\* What a file may hold when the run starts
FileTexts == {RefTwoPart, RefA27, RefA27 \o RefA9, RefA9 \o RefB99}

\* How the I/O of one process_html_file call goes.  A failed write leaves the file
\* truncated by open(..., 'w'), or holding the part flushed before the failure.
IOKinds == {"ok", "read_fails", "open_for_write_fails", "write_fails_empty",
            "write_fails_partial"}

WriteFailures == {"open_for_write_fails", "write_fails_empty", "write_fails_partial"}

\* what process_html_file hands back and leaves behind: success, change_count and
\* version_changes are the returned tuple; files is the file system afterwards;
\* opened_r and opened_w count the open() calls; content, found,
\* changes and updated_content are the locals of the try block (the text read, and
\* the count, map and text returned by update_cdn_versions)
Outcome(ok, u, files, opened_w, text) ==
  [success |-> ok,
   change_count |-> IF ok /\ u.change_count > 0 THEN u.change_count ELSE 0,
   version_changes |-> IF ok /\ u.change_count > 0 THEN u.version_changes ELSE <<>>,
   files |-> files, opened_r |-> 1, opened_w |-> opened_w,
   content |-> text, found |-> u.change_count, changes |-> u.version_changes,
   updated_content |-> u.updated_content]

NothingFound == [updated_content |-> <<>>, change_count |-> 0, version_changes |-> <<>>]

\* lines 125-130 with a failed write reported as a success
write_back_unguarded(file_path, io, files, text, u) ==
  IF u.change_count > 0
  THEN [Outcome(TRUE, u, files, 1, text) EXCEPT
          !.files = IF io = "ok" THEN [files EXCEPT ![file_path] = u.updated_content]
                    ELSE files]
  ELSE Outcome(TRUE, u, files, 0, text)

\* lines 125-130 without the test of change_count: the file is always written
write_back_always(file_path, io, files, text, u) ==
  IF io = "ok"
  THEN Outcome(TRUE, u, [files EXCEPT ![file_path] = u.updated_content], 1, text)
  ELSE Outcome(FALSE, u, files, 1, text)

\* lines 125-134: the text is written back if anything was found in it; a failure
\* ends in the except branch, the file left as the failed step left it
write_back(file_path, io, files, text, u) ==
  IF u.change_count > 0
  THEN CASE io = "ok" ->
              Outcome(TRUE, u, [files EXCEPT ![file_path] = u.updated_content], 1, text)
         [] io = "open_for_write_fails" ->
              Outcome(FALSE, u, files, 1, text)
         [] io = "write_fails_empty" ->
              Outcome(FALSE, u, [files EXCEPT ![file_path] = <<>>], 1, text)
         [] io = "write_fails_partial" ->
              Outcome(FALSE, u,
                      [files EXCEPT ![file_path] =
                         SubSeq(u.updated_content, 1, Len(u.updated_content) \div 2)],
                      1, text)
  ELSE Outcome(TRUE, u, files, 0, text)

\* process_html_file(file_path) with its I/O going as io says, on the file system
\* files
process_html_file(file_path, io, files) ==
  IF io = "read_fails"
  THEN Outcome(FALSE, NothingFound, files, 0, <<>>)
  ELSE write_back(file_path, io, files, files[file_path],
                  update_cdn_versions(files[file_path]))

\* the I/O outcomes there can be for a file: a write fails only if one is attempted
Outcomes(file_path, files) ==
  IF update_cdn_versions(files[file_path]).change_count > 0
  THEN IOKinds ELSE IOKinds \ WriteFailures

\* sorted(...): the paths of S in ascending order
RECURSIVE Sorted(_)
Sorted(S) == IF S = {} THEN <<>> ELSE <<Min(S)>> \o Sorted(S \ {Min(S)})

\* find_html_files(base_dir): every *.html under the directory, sorted
find_html_files(files) == Sorted({p \in DOMAIN files : IsHtml(p)})

\* the merge written as all_version_changes.update(version_changes): the later wins
MergeLastWins(all, changes) == changes @@ all

\* main's merge of a file's changes into the summary: an entry there already stays
MergeChanges(all, changes) == all @@ changes

\* a run that updated nothing taken for a failed run
StatusNonZeroIfIdle(modified) == IF modified = 0 THEN 1 ELSE 0

\* main returning at its end: the interpreter exits with status 0
StatusAtEnd(modified) == 0

InitDriver ==
  /\ dir_exists \in BOOLEAN
  /\ fs0 \in UNION {[P -> FileTexts] : P \in SUBSET Paths}
  /\ OtherPath \in DOMAIN fs0 => fs0[OtherPath] = RefA27
  /\ ~dir_exists => DOMAIN fs0 \subseteq {OtherPath}
  /\ fs = fs0
  /\ pc = "start"
  /\ html_files = <<>>
  /\ idx = 1
  /\ total_changes = 0
  /\ files_modified = 0
  /\ all_version_changes = <<>>
  /\ exit_status = -1
  /\ reads = [p \in DOMAIN fs0 |-> 0]
  /\ writes = [p \in DOMAIN fs0 |-> 0]
  /\ results = <<>>
  /\ IdleInc
  /\ IdleRewrite

\* main, lines 172-176: the HTML directory must exist
CheckDir ==
  /\ pc = "start"
  /\ IF dir_exists
     THEN pc' = "find" /\ UNCHANGED exit_status
     ELSE pc' = "exit" /\ exit_status' = 1
  /\ UNCHANGED <<dir_exists, fs0, fs, html_files, idx, total_changes, files_modified,
                 all_version_changes, reads, writes, results, incVars, rewriteVars>>

\* main, lines 185-197: the files are listed; none is an error
FindFiles ==
  /\ pc = "find"
  /\ html_files' = find_html_files(fs)
  /\ IF html_files' = <<>>
     THEN pc' = "exit" /\ exit_status' = 1
     ELSE pc' = "loop" /\ UNCHANGED exit_status
  /\ UNCHANGED <<dir_exists, fs0, fs, idx, total_changes, files_modified,
                 all_version_changes, reads, writes, results, incVars, rewriteVars>>

\* main, lines 199-215: one turn of the loop
ProcessFile ==
  /\ pc = "loop"
  /\ idx <= Len(html_files)
  /\ LET file_path == html_files[idx] IN
     \E io \in Outcomes(file_path, fs) :
     \E r \in {process_html_file(file_path, io, fs)} :
         /\ fs' = r.files
         /\ reads' = [reads EXCEPT ![file_path] = @ + r.opened_r]
         /\ writes' = [writes EXCEPT ![file_path] = @ + r.opened_w]
         /\ IF r.success /\ r.change_count > 0
            THEN /\ files_modified' = files_modified + 1
                 /\ total_changes' = total_changes + r.change_count
                 /\ all_version_changes' = MergeChanges(all_version_changes, r.version_changes)
            ELSE UNCHANGED <<files_modified, total_changes, all_version_changes>>
         /\ results' = Append(results,
                              [path |-> file_path, io |-> io, content |-> r.content,
                               found |-> r.found, changes |-> r.changes,
                               updated_content |-> r.updated_content,
                               wrote |-> r.opened_w = 1, success |-> r.success,
                               change_count |-> r.change_count,
                               version_changes |-> r.version_changes])
  /\ idx' = idx + 1
  /\ UNCHANGED <<dir_exists, fs0, pc, html_files, exit_status, incVars, rewriteVars>>

\* main, lines 217-234: the report, and the end of main
Finish ==
  /\ pc = "loop"
  /\ idx > Len(html_files)
  /\ pc' = "exit"
  /\ exit_status' = StatusAtEnd(files_modified)
  /\ UNCHANGED <<dir_exists, fs0, fs, html_files, idx, total_changes, files_modified,
                 all_version_changes, reads, writes, results, incVars, rewriteVars>>

Next == CheckDir \/ FindFiles \/ ProcessFile \/ Finish

Init == InitDriver

Spec == Init /\ [][Next]_vars

---------------------------------------------------------------------------
(* What is claimed of the driver *)

HasOcc(text) == OccStarts(text) # {}

HtmlFiles0 == {p \in DOMAIN fs0 : IsHtml(p)}

\* C6: in a run without I/O failures exactly the files holding a qualifying
\* occurrence are written, each once and in full with its rewritten text, the
\* others are never opened for writing and keep their text, and files_modified ends
\* as the number of files written; a file is written iff update_cdn_versions
\* reports changeCount > 0 for it.
C6_WritesExactlyChanged ==
  /\ \A k \in 1..Len(results) :
       results[k].io = "ok" => (results[k].wrote <=> results[k].found > 0)
  /\ (pc = "exit" /\ exit_status = 0 /\ \A k \in 1..Len(results) : results[k].io = "ok") =>
       /\ \A p \in HtmlFiles0 :
            /\ writes[p] = IF HasOcc(fs0[p]) THEN 1 ELSE 0
            /\ fs[p] = IF HasOcc(fs0[p]) THEN update_cdn_versions(fs0[p]).updated_content
                       ELSE fs0[p]
       /\ files_modified = Cardinality({p \in HtmlFiles0 : HasOcc(fs0[p])})

\* two files, one with an occurrence: one written, one left alone
C6_Witness ==
  /\ pc = "exit" /\ exit_status = 0
  /\ HtmlFiles0 = {1, 2}
  /\ \A k \in 1..Len(results) : results[k].io = "ok"
  /\ HasOcc(fs0[1]) /\ ~HasOcc(fs0[2])
  /\ writes[1] = 1 /\ writes[2] = 0
  /\ fs[1] # fs0[1] /\ fs[2] = fs0[2]
  /\ files_modified = 1

OkResults == {k \in 1..Len(results) : results[k].io = "ok"}

CountAt(k) == Len(Occs(fs0[results[k].path]))

\* the filenames of the occurrences of text
FileNames(text) == LET os == Occs(text) IN {os[n].filename : n \in 1..Len(os)}

RECURSIVE SumCounts(_)
SumCounts(S) == IF S = {} THEN 0 ELSE CountAt(Max(S)) + SumCounts(S \ {Max(S)})

\* C7: a failure in one file ends in (False, 0, {}); the failed file adds nothing to
\* files_modified, total_changes or the summary, every other file is processed as
\* it would have been without the failure, and the run goes through the whole list.
C7_FailureStaysInFile ==
  /\ \A k \in 1..Len(results) :
       LET r == results[k] IN
       IF r.io = "ok"
       THEN LET u == update_cdn_versions(fs0[r.path]) IN
            /\ r.success
            /\ r.change_count = u.change_count
            /\ r.version_changes = u.version_changes
            /\ fs[r.path] = u.updated_content
       ELSE ~r.success /\ r.change_count = 0 /\ r.version_changes = <<>>
  /\ files_modified = Cardinality({k \in OkResults : HasOcc(fs0[results[k].path])})
  /\ total_changes = SumCounts(OkResults)
  /\ DOMAIN all_version_changes = UNION {FileNames(fs0[results[k].path]) : k \in OkResults}
  /\ (pc = "exit" /\ exit_status = 0) => Len(results) = Len(html_files)

\* the first file's write failed half way, the second file was rewritten all the same
C7_Witness ==
  /\ pc = "exit"
  /\ Len(results) = 2
  /\ results[1].io = "write_fails_partial" /\ results[1].found = 2
  /\ results[2].io = "ok" /\ results[2].change_count = 1
  /\ files_modified = 1 /\ total_changes = 1

\* C8: the exit status is non-zero iff the HTML directory does not exist or holds no
\* matching file, and then nothing is read or written; in every other run the status
\* is zero and each discovered file has been processed exactly once, whatever was
\* rewritten and whatever failed.  Until it has exited the run has a next step to
\* take, and the loop has a turn for each listed file and no more.
C8_ExitStatus ==
  /\ pc # "exit" =>
       /\ exit_status = -1
       /\ pc \in {"start", "find", "loop"}
       /\ pc = "loop" => idx <= Len(html_files) + 1
  /\ pc = "exit" =>
       /\ exit_status \in {0, 1}
       /\ exit_status = 1 <=> (~dir_exists \/ HtmlFiles0 = {})
       /\ exit_status = 1 =>
            /\ results = <<>> /\ fs = fs0
            /\ \A p \in DOMAIN fs0 : reads[p] = 0 /\ writes[p] = 0
       /\ exit_status = 0 =>
            /\ Len(results) = Cardinality(HtmlFiles0)
            /\ {results[k].path : k \in 1..Len(results)} = HtmlFiles0
            /\ \A p \in DOMAIN fs0 : reads[p] = IF IsHtml(p) THEN 1 ELSE 0

\* every file failed and the status is zero all the same
C8_Witness ==
  /\ pc = "exit" /\ exit_status = 0
  /\ Len(results) = 2
  /\ \A k \in 1..Len(results) : results[k].io # "ok"
  /\ files_modified = 0

\* the last occurrence of filename f in text
LastOcc(text, f) ==
  LET os == Occs(text) IN os[Max({n \in 1..Len(os) : os[n].filename = f})]

\* C9: the files are processed one after another in sorted order; the summary keeps
\* for each filename the pair of the first file, in that order, whose map has the
\* filename, that pair being the one of the last occurrence of the filename in that
\* file; the summary's keys are those of the maps of the files processed so far.
C9_OrderAndFirstWins ==
  /\ idx = Len(results) + 1
  /\ \A k \in 1..Len(results) : results[k].path = html_files[k]
  /\ \A i, j \in 1..Len(html_files) : i < j => html_files[i] < html_files[j]
  /\ (pc \in {"loop", "exit"} /\ dir_exists) =>
       {html_files[k] : k \in 1..Len(html_files)} = HtmlFiles0
  /\ DOMAIN all_version_changes =
       UNION {DOMAIN results[k].version_changes : k \in 1..Len(results)}
  /\ \A f \in DOMAIN all_version_changes :
       LET first == Min({k \in 1..Len(results) : f \in DOMAIN results[k].version_changes})
       IN all_version_changes[f] = results[first].version_changes[f]
  /\ \A k \in 1..Len(results) : \A f \in DOMAIN results[k].version_changes :
       results[k].version_changes[f][1] =
         OccVersion(results[k].content, LastOcc(results[k].content, f))

\* a.js is 1.1.27 then 1.1.9 in the first file and 1.1.27 in the second: the summary
\* holds the first file's pair, which is the one of its second occurrence
C9_Witness ==
  /\ pc = "exit"
  /\ Len(results) = 2
  /\ results[1].path = 1 /\ results[2].path = 2
  /\ fs0[1] = RefA27 \o RefA9 /\ fs0[2] = RefA27
  /\ all_version_changes[<<"a", ".", "j", "s">>] =
       <<(<<"1", ".", "1", ".", "9">>), (<<"1", ".", "1", ".", "1", "0">>)>>
  /\ results[2].version_changes[<<"a", ".", "j", "s">>] =
       <<(<<"1", ".", "1", ".", "2", "7">>), (<<"1", ".", "1", ".", "2", "8">>)>>

\* C10: every version recorded by update_cdn_versions is a triple increment_version
\* parses, so new differs from old in every pair; a count above zero means the
\* returned text differs from the text read, and no file is overwritten with the text
\* that was read from it.
C10_AlwaysARealChange ==
  \A k \in 1..Len(results) :
    LET r == results[k] IN
    /\ \A f \in DOMAIN r.changes :
         IsTriple(r.changes[f][1]) /\ r.changes[f][2] # r.changes[f][1]
    /\ r.found > 0 => r.updated_content # r.content
    /\ r.wrote => r.updated_content # r.content
    /\ (r.wrote /\ r.io = "ok") => fs[r.path] # fs0[r.path]

\* a file with patches 9 and 99 has been rewritten
C10_Witness ==
  /\ Len(results) >= 1
  /\ results[1].content = RefA9 \o RefB99
  /\ results[1].found = 2 /\ results[1].wrote /\ results[1].io = "ok"
  /\ results[1].changes[<<"b", ".", "c", "s", "s">>] =
       <<(<<"2", ".", "0", ".", "9", "9">>), (<<"2", ".", "0", ".", "1", "0", "0">>)>>

====
